---- MODULE Spec2Model ----
(***************************************************************************)
(* A model of the Sliced Picture editor (jetrotal/sliced-image).           *)
(*                                                                         *)
(*   - src/utils/math.ts: getEffectiveTileMode, generateDefaultScaling,    *)
(*     calculateSegments, calculateDestinationSegments as operators;       *)
(*   - src/App.tsx and src/components/Inspector.tsx, GridLines: the        *)
(*     editor state (React useState cells) and one action per handler.     *)
(*   - PreviewCanvas: the segments and layout of a render pass and the     *)
(*     drawImage calls of one cell of its draw loop.                       *)
(*                                                                         *)
(* JavaScript numbers are modelled as exact rationals <<n, d>> in lowest   *)
(* terms (d > 0): the arithmetic of math.ts is carried out exactly, so     *)
(* floating-point rounding is outside the model.                           *)
(* JavaScript booleans stored in the scaling arrays are the strings        *)
(* "true" and "false", next to "undefined" (a hole or an undefined array   *)
(* element) and "null" (what JSON.stringify writes for such an element).   *)
(***************************************************************************)
EXTENDS Integers, Sequences, FiniteSets, TLC

VARIABLES
  \* ---- editor state (src/App.tsx useState cells)
  filename, xAxes, yAxes, rowScaling, colScaling, tiles, selectedAxis,
  \* ---- GridLines local state
  dragging,
  \* ---- environment: the clock read by Date.now(), the file written by
  \*      handleDownload with the state it was exported from, and the last
  \*      handler that ran (with the file or the input it was given), the
  \*      number of events handled
  now, download, exporter, last, events,
  \* ---- one dimension of a render pass (PreviewCanvas effect)
  axes, totalSize, scalingArray, targetSize, segments, destSegments, pc,
  \* ---- one cell of a render pass: its mode and geometry, and the
  \*      drawImage calls issued for it
  cell, calls,
  \* ---- the image (src/App.tsx): the imageSrc and image state cells, the
  \*      file reads and image loads still in flight, the file picked last
  \*      and the number of files picked
  imageSrc, image, reads, loads, picked, uploads

editorVars == <<filename, xAxes, yAxes, rowScaling, colScaling, tiles,
                selectedAxis, dragging, now, download, exporter, last, events>>
renderVars == <<axes, totalSize, scalingArray, targetSize, segments,
                destSegments, pc, cell, calls>>
vars == <<filename, xAxes, yAxes, rowScaling, colScaling, tiles,
          selectedAxis, dragging, now, download, exporter, last, events,
          axes, totalSize, scalingArray, targetSize, segments,
          destSegments, pc, cell, calls,
          imageSrc, image, reads, loads, picked, uploads>>
imageVars == <<imageSrc, image, reads, loads, picked, uploads>>

(***************************************************************************)
(* Numbers: exact rationals.                                               *)
(***************************************************************************)
Abs(i) == IF i < 0 THEN -i ELSE i

RECURSIVE GCD(_, _)
GCD(a, b) == IF b = 0 THEN a ELSE GCD(b, a % b)

\* n / d in lowest terms, d # 0
Rat(n, d) ==
  LET s == IF d < 0 THEN -1 ELSE 1
      g == GCD(Abs(n), Abs(d))
  IN  <<(s * n) \div g, (s * d) \div g>>

R(i) == <<i, 1>>

RAdd(a, b) == Rat(a[1] * b[2] + b[1] * a[2], a[2] * b[2])
RSub(a, b) == Rat(a[1] * b[2] - b[1] * a[2], a[2] * b[2])
RMul(a, b) == Rat(a[1] * b[1], a[2] * b[2])
\* b # 0 wherever the code divides (see calculateDestinationSegments)
RDiv(a, b) == Rat(a[1] * b[2], a[2] * b[1])
RLt(a, b)  == a[1] * b[2] < b[1] * a[2]
RLe(a, b)  == a[1] * b[2] <= b[1] * a[2]
RMax(a, b) == IF RLt(a, b) THEN b ELSE a
RMin(a, b) == IF RLt(b, a) THEN b ELSE a

RECURSIVE RSum(_)
RSum(s) == IF s = <<>> THEN R(0) ELSE RAdd(Head(s), RSum(Tail(s)))

(***************************************************************************)
(* src/unnamed/part_002 (types): TileMode                                  *)
(***************************************************************************)
TileMode == {"Fixed", "Stretch", "Repeat", "Hidden"}

(***************************************************************************)
(* src/utils/math.ts                                                       *)
(***************************************************************************)
\* the key `${row}-${col}` of a tile
TileKey(row, col) == <<row, col>>

\* faulty variant: the default of the stale doc comment (even indices Fixed, odd
\* indices Stretch)
getEffectiveTileModeByParity(tileMap, row, col) ==
  LET key == TileKey(row, col)
  IN  IF key \in DOMAIN tileMap THEN tileMap[key].mode
      ELSE IF row % 2 = 0 /\ col % 2 = 0 THEN "Fixed" ELSE "Stretch"

getEffectiveTileMode(tileMap, row, col) ==
  LET key == TileKey(row, col)
  IN  IF key \in DOMAIN tileMap THEN tileMap[key].mode ELSE "Stretch"

JsBool(b) == IF b THEN "true" ELSE "false"

\* faulty variant: the pattern starts with a scalable segment
generateDefaultScalingEvenFirst(numSegments) ==
  [k \in 1..numSegments |-> JsBool((k - 1) % 2 = 0)]

generateDefaultScaling(numSegments) ==
  [k \in 1..numSegments |-> JsBool((k - 1) % 2 # 0)]

\* [...axes].sort((a, b) => a.value - b.value): a stable sort by value
RECURSIVE InsertByValue(_, _)
InsertByValue(a, sorted) ==
  IF sorted = <<>> THEN <<a>>
  ELSE IF RLt(a.value, Head(sorted).value)
       THEN <<a>> \o sorted
       ELSE <<Head(sorted)>> \o InsertByValue(a, Tail(sorted))

RECURSIVE SortByValue(_)
SortByValue(s) ==
  IF s = <<>> THEN <<>>
  ELSE InsertByValue(s[Len(s)], SortByValue(SubSeq(s, 1, Len(s) - 1)))

\* faulty variant: a missing entry counts as scalable
ScalingOrTrue(arr, i) ==
  IF i + 1 \in DOMAIN arr /\ arr[i + 1] \in {"true", "false"}
  THEN arr[i + 1] ELSE "true"

\* scalingArray[i] ?? false, i counted from 0
ScalingOrFalse(arr, i) ==
  IF i + 1 \in DOMAIN arr /\ arr[i + 1] \in {"true", "false"}
  THEN arr[i + 1] ELSE "false"

\* boundaries.forEach((boundary, i) => ...), from position k (1-based)
RECURSIVE SegmentWalk(_, _, _, _, _)
SegmentWalk(boundaries, arr, k, cursor, acc) ==
  IF k > Len(boundaries) THEN acc
  ELSE LET boundary   == boundaries[k]
           isScalable == ScalingOrFalse(arr, k - 1)
           length     == RSub(boundary, cursor)
       IN  SegmentWalk(boundaries, arr, k + 1, boundary,
             IF RLt(R(0), length)
             THEN Append(acc, [start |-> cursor, length |-> length,
                               isFixed |-> (isScalable # "true"),
                               index |-> k - 1])
             ELSE acc)

calculateSegments(axs, total, arr) ==
  LET sorted     == SortByValue(axs)
      boundaries == [k \in 1..Len(sorted) |->
                       RMul(RDiv(sorted[k].value, R(100)), total)]
                    \o <<total>>
  IN  SegmentWalk(boundaries, arr, 1, R(0), <<>>)

\* lengths of the segments that satisfy keep, in order
RECURSIVE LengthsWhere(_, _)
LengthsWhere(segs, fixed) ==
  IF segs = <<>> THEN <<>>
  ELSE (IF Head(segs).isFixed = fixed THEN <<Head(segs).length>> ELSE <<>>)
       \o LengthsWhere(Tail(segs), fixed)

TotalFixed(segs) == RSum(LengthsWhere(segs, TRUE))
TotalScaleSourceLength(segs) == RSum(LengthsWhere(segs, FALSE))

\* faulty variant: a scalable segment takes the whole available space, whatever its
\* share of the scalable source length
DestLengthNoRatio(seg, available, scaleFixed, totalScale) ==
  IF seg.isFixed
  THEN RMul(seg.length, scaleFixed)
  ELSE IF totalScale = R(0) THEN R(0) ELSE available

\* the length given to one source segment (math.ts:102-114)
DestLength(seg, available, scaleFixed, totalScale) ==
  IF seg.isFixed
  THEN RMul(seg.length, scaleFixed)
  ELSE IF totalScale = R(0)
       THEN R(0)
       ELSE RMul(RDiv(seg.length, totalScale), available)

\* faulty variant: the running cursor is not advanced
RECURSIVE DestWalkCursorStays(_, _, _, _, _, _)
DestWalkCursorStays(segs, available, scaleFixed, totalScale, cursor, acc) ==
  IF segs = <<>> THEN acc
  ELSE LET seg        == Head(segs)
           destLength == DestLength(seg, available, scaleFixed, totalScale)
       IN  DestWalkCursorStays(Tail(segs), available, scaleFixed, totalScale,
                    cursor,
                    Append(acc, [start |-> cursor, length |-> destLength,
                                 srcIndex |-> seg.index]))

\* srcSegments.forEach(seg => ...), with the running cursor
RECURSIVE DestWalk(_, _, _, _, _, _)
DestWalk(segs, available, scaleFixed, totalScale, cursor, acc) ==
  IF segs = <<>> THEN acc
  ELSE LET seg        == Head(segs)
           destLength == DestLength(seg, available, scaleFixed, totalScale)
       IN  DestWalk(Tail(segs), available, scaleFixed, totalScale,
                    RAdd(cursor, destLength),
                    Append(acc, [start |-> cursor, length |-> destLength,
                                 srcIndex |-> seg.index]))

\* faulty variant: the fixed segments are not taken out of the space to distribute
AvailableScaleSpaceWhole(target, totalFixed) ==
  RMax(R(0), target)

\* math.ts:88
AvailableScaleSpace(target, totalFixed) ==
  RMax(R(0), RSub(target, totalFixed))

\* faulty variant: fixed segments are never shrunk
ScaleFixedNever(target, totalFixed) == R(1)

\* math.ts:91
ScaleFixed(target, totalFixed) ==
  IF RLt(target, totalFixed) THEN RDiv(target, totalFixed) ELSE R(1)

calculateDestinationSegments(srcSegments, target) ==
  LET totalFixed == TotalFixed(srcSegments)
      availableScaleSpace == AvailableScaleSpace(target, totalFixed)
      scaleFixed == ScaleFixed(target, totalFixed)
      totalScaleSourceLength == TotalScaleSourceLength(srcSegments)
  IN  DestWalk(srcSegments, availableScaleSpace, scaleFixed,
               totalScaleSourceLength, R(0), <<>>)

(***************************************************************************)
(* Editor state: src/App.tsx                                               *)
(***************************************************************************)
\* null, for a selection or a drag (a record like the others)
NoAxis == [id |-> <<"none", 0>>, type |-> "none"]

\* an empty TileMap {}
EmptyTiles == [k \in {} |-> [mode |-> "Stretch"]]

\* { ...tiles, [key]: value }
TilesWith(tileMap, key, value) ==
  [k \in (DOMAIN tileMap) \cup {key} |-> IF k = key THEN value ELSE tileMap[k]]

\* the file a handler has not written yet
NoFile == [parse |-> "none"]

NoSnapshot == [filename |-> "", xAxes |-> <<>>, yAxes |-> <<>>,
               rowScaling |-> <<>>, colScaling |-> <<>>, tiles |-> EmptyTiles]

\* model bound: the number of user events handled in one run
MaxEvents == 4

EditorInit ==
  /\ filename = "example.jpg"
  /\ xAxes = <<[id |-> <<"x", 1>>, value |-> R(33)],
               [id |-> <<"x", 2>>, value |-> R(66)]>>
  /\ yAxes = <<[id |-> <<"y", 1>>, value |-> R(33)],
               [id |-> <<"y", 2>>, value |-> R(66)]>>
  /\ rowScaling = <<"false", "true", "false">>
  /\ colScaling = <<"false", "true", "false">>
  /\ tiles = EmptyTiles
  /\ selectedAxis = NoAxis
  /\ dragging = NoAxis
  /\ now = 3
  /\ download = NoFile
  /\ exporter = NoSnapshot
  /\ last = [op |-> "init", file |-> NoFile]
  /\ events = 0

\* App.tsx:10
DEFAULT_IMAGE_SRC == "https://picsum.photos/id/20/400/400"

\* image === null (App.tsx:17)
NoImage == [src |-> "null"]

\* no file has been picked
NoPick == [name |-> "", data |-> ""]

\* the default image has loaded, and nothing is in flight
ImageLoaded ==
  /\ imageSrc = DEFAULT_IMAGE_SRC
  /\ image = [src |-> DEFAULT_IMAGE_SRC]
  /\ reads = {}
  /\ loads = {}
  /\ picked = NoPick
  /\ uploads = 0

\* no cell is being drawn
NoCell == [mode |-> "none"]

RenderIdle ==
  /\ axes = <<>>
  /\ totalSize = R(0)
  /\ scalingArray = <<>>
  /\ targetSize = R(0)
  /\ segments = <<>>
  /\ destSegments = <<>>
  /\ pc = "idle"
  /\ cell = NoCell
  /\ calls = <<>>

\* Inspector.tsx:45-46
numRows == Len(yAxes) + 1
numCols == Len(xAxes) + 1

\* axes.filter(a => a.id !== id)
RECURSIVE WithoutId(_, _)
WithoutId(axs, id) ==
  IF axs = <<>> THEN <<>>
  ELSE (IF Head(axs).id # id THEN <<Head(axs)>> ELSE <<>>)
       \o WithoutId(Tail(axs), id)

\* axes.map(a => a.id === id ? { ...a, value } : a)
WithValue(axs, id, value) ==
  [k \in 1..Len(axs) |->
     IF axs[k].id = id THEN [axs[k] EXCEPT !.value = value] ELSE axs[k]]

\* faulty variant: the scaling array is not shortened
DropLastKeepsAll(arr) == arr

\* prev.slice(0, -1)
DropLast(arr) == IF arr = <<>> THEN <<>> ELSE SubSeq(arr, 1, Len(arr) - 1)

\* !value of a scaling entry
JsNot(v) == IF v = "true" THEN "false" ELSE "true"

\* const a = [...arr]; a[index] = !a[index]  (index counted from 0; an index
\* past the end leaves undefined entries before it)
ToggledAt(arr, index) ==
  [k \in 1..(IF index + 1 > Len(arr) THEN index + 1 ELSE Len(arr)) |->
     IF k = index + 1
     THEN (IF k \in DOMAIN arr THEN JsNot(arr[k]) ELSE "true")
     ELSE (IF k \in DOMAIN arr THEN arr[k] ELSE "undefined")]

\* App.tsx:93-111.  Date.now() advances between two handled events.
handleAddAxis(type) ==
  LET newId   == <<type, now>>
      newAxis == [id |-> newId, value |-> R(50)]
  IN  /\ IF type = "x"
         THEN LET newAxes == Append(xAxes, newAxis)
                  newSegmentIndex == Len(newAxes)
              IN  /\ xAxes' = newAxes
                  /\ colScaling' =
                       Append(colScaling, JsBool(newSegmentIndex % 2 # 0))
                  /\ UNCHANGED <<yAxes, rowScaling>>
         ELSE LET newAxes == Append(yAxes, newAxis)
                  newSegmentIndex == Len(newAxes)
              IN  /\ yAxes' = newAxes
                  /\ rowScaling' =
                       Append(rowScaling, JsBool(newSegmentIndex % 2 # 0))
                  /\ UNCHANGED <<xAxes, colScaling>>
      /\ selectedAxis' = [id |-> newId, type |-> type]
      /\ now' = now + 1
      /\ last' = [op |-> "add", file |-> NoFile]
      /\ UNCHANGED <<filename, tiles, dragging, download, exporter>>

\* faulty variant: deleting an axis also forgets the stored tile entries
handleDeleteAxisDropsTiles(id, type) ==
  /\ IF type = "x"
     THEN /\ xAxes' = WithoutId(xAxes, id)
          /\ colScaling' = DropLast(colScaling)
          /\ UNCHANGED <<yAxes, rowScaling>>
     ELSE /\ yAxes' = WithoutId(yAxes, id)
          /\ rowScaling' = DropLast(rowScaling)
          /\ UNCHANGED <<xAxes, colScaling>>
  /\ selectedAxis' = IF selectedAxis.id = id THEN NoAxis ELSE selectedAxis
  /\ tiles' = EmptyTiles
  /\ last' = [op |-> "delete", file |-> NoFile]
  /\ UNCHANGED <<filename, dragging, now, download, exporter>>

\* App.tsx:113-124, called by the Inspector's delete button
\* (Inspector.tsx:121-128) with the selected axis
handleDeleteAxis(id, type) ==
  /\ IF type = "x"
     THEN /\ xAxes' = WithoutId(xAxes, id)
          /\ colScaling' = DropLast(colScaling)
          /\ UNCHANGED <<yAxes, rowScaling>>
     ELSE /\ yAxes' = WithoutId(yAxes, id)
          /\ rowScaling' = DropLast(rowScaling)
          /\ UNCHANGED <<xAxes, colScaling>>
  /\ selectedAxis' = IF selectedAxis.id = id THEN NoAxis ELSE selectedAxis
  /\ last' = [op |-> "delete", file |-> NoFile]
  /\ UNCHANGED <<filename, tiles, dragging, now, download, exporter>>

\* App.tsx:126-130
toggleRowScaling(index) ==
  /\ rowScaling' = ToggledAt(rowScaling, index)
  /\ last' = [op |-> "toggle", file |-> NoFile]
  /\ UNCHANGED <<filename, xAxes, yAxes, colScaling, tiles, selectedAxis,
                 dragging, now, download, exporter>>

\* App.tsx:132-136
toggleColScaling(index) ==
  /\ colScaling' = ToggledAt(colScaling, index)
  /\ last' = [op |-> "toggle", file |-> NoFile]
  /\ UNCHANGED <<filename, xAxes, yAxes, rowScaling, tiles, selectedAxis,
                 dragging, now, download, exporter>>

\* Inspector.tsx:48-54
handleTileChange(row, col, mode) ==
  /\ tiles' = TilesWith(tiles, TileKey(row, col), [mode |-> mode])
  /\ last' = [op |-> "tile", file |-> NoFile, input |-> <<row, col, mode>>]
  /\ UNCHANGED <<filename, xAxes, yAxes, rowScaling, colScaling,
                 selectedAxis, dragging, now, download, exporter>>

\* GridLines handleMouseDown and App.tsx:272 onSelectAxis
handleMouseDown(id, type) ==
  /\ dragging' = [id |-> id, type |-> type]
  /\ selectedAxis' = [id |-> id, type |-> type]
  /\ last' = [op |-> "select", file |-> NoFile]
  /\ UNCHANGED <<filename, xAxes, yAxes, rowScaling, colScaling, tiles,
                 now, download, exporter>>

\* GridLines handleMouseMove: relative is e.clientX - rect.left (or the y
\* counterpart), size the rendered width (height)
handleMouseMove(relative, size) ==
  LET newValue == RMax(R(0), RMin(R(100), RMul(RDiv(relative, size), R(100))))
  IN  /\ dragging # NoAxis
      /\ IF dragging.type = "x"
         THEN /\ xAxes' = WithValue(xAxes, dragging.id, newValue)
              /\ UNCHANGED yAxes
         ELSE /\ yAxes' = WithValue(yAxes, dragging.id, newValue)
              /\ UNCHANGED xAxes
      /\ last' = [op |-> "move", file |-> NoFile,
                   input |-> <<relative, size>>]
      /\ UNCHANGED <<filename, rowScaling, colScaling, tiles, selectedAxis,
                     dragging, now, download, exporter>>

\* GridLines handleMouseUp (registered while dragging)
handleMouseUp ==
  /\ dragging # NoAxis
  /\ dragging' = NoAxis
  /\ last' = [op |-> "release", file |-> NoFile]
  /\ UNCHANGED <<filename, xAxes, yAxes, rowScaling, colScaling, tiles,
                 selectedAxis, now, download, exporter>>

\* NaN
NaN == <<0, 0>>
isNaN(v) == v[2] = 0

\* parseFloat on the texts typed into the position field
parseFloat(text) ==
  CASE text = "-5"  -> R(-5)
    [] text = "50"  -> R(50)
    [] text = "250" -> R(250)
    [] OTHER        -> NaN

\* faulty variant: the parsed value is stored without clamping
updateAxisValueUnclamped(id, type, newVal) ==
  LET val == parseFloat(newVal)
  IN  /\ IF isNaN(val)
         THEN UNCHANGED <<xAxes, yAxes>>
         ELSE IF type = "x"
              THEN /\ xAxes' = WithValue(xAxes, id, val)
                   /\ UNCHANGED yAxes
              ELSE /\ yAxes' = WithValue(yAxes, id, val)
                   /\ UNCHANGED xAxes
      /\ last' = [op |-> "entry", file |-> NoFile, input |-> newVal]
      /\ UNCHANGED <<filename, rowScaling, colScaling, tiles, selectedAxis,
                     dragging, now, download, exporter>>

\* Inspector.tsx:61-71, called with the selected axis (Inspector.tsx:142)
updateAxisValue(id, type, newVal) ==
  LET val     == parseFloat(newVal)
      clamped == RMin(R(100), RMax(R(0), val))
  IN  /\ IF isNaN(val)
         THEN UNCHANGED <<xAxes, yAxes>>
         ELSE IF type = "x"
              THEN /\ xAxes' = WithValue(xAxes, id, clamped)
                   /\ UNCHANGED yAxes
              ELSE /\ yAxes' = WithValue(yAxes, id, clamped)
                   /\ UNCHANGED xAxes
      /\ last' = [op |-> "entry", file |-> NoFile, input |-> newVal]
      /\ UNCHANGED <<filename, rowScaling, colScaling, tiles, selectedAxis,
                     dragging, now, download, exporter>>

(***************************************************************************)
(* Export and import: App.tsx generateJSON, handleLoadJson;                *)
(* Inspector.tsx handleDownload, handleUpload                              *)
(***************************************************************************)
\* faulty variant: the stored entries are exported as well, next to the dense grid
explicitTilesAndStored ==
  LET rows == Len(yAxes) + 1
      cols == Len(xAxes) + 1
  IN  [key \in ((0..(rows - 1)) \X (0..(cols - 1))) \cup DOMAIN tiles |->
         [mode |-> getEffectiveTileMode(tiles, key[1], key[2])]]

\* the dense tile map of generateJSON (App.tsx:140-152)
explicitTiles ==
  LET sortedX == SortByValue(xAxes)
      sortedY == SortByValue(yAxes)
      rows    == Len(sortedY) + 1
      cols    == Len(sortedX) + 1
  IN  [key \in (0..(rows - 1)) \X (0..(cols - 1)) |->
         [mode |-> getEffectiveTileMode(tiles, key[1], key[2])]]

\* JSON.stringify of an array of booleans: a hole or undefined is written null
JsonArray(arr) ==
  [k \in 1..Len(arr) |-> IF arr[k] = "undefined" THEN "null" ELSE arr[k]]

\* JSON.stringify(config, null, 2): the text of the document, modelled by
\* the value it parses to
JSONstringify(config) ==
  [parse |-> "ok",
   json  |-> [config EXCEPT !.rowScaling = JsonArray(@),
                            !.colScaling = JsonArray(@)]]

\* App.tsx:138-163
generateJSON ==
  LET config == [filename   |-> filename,
                 xAxes      |-> xAxes,
                 yAxes      |-> yAxes,
                 tiles      |-> explicitTiles,
                 rowScaling |-> rowScaling,
                 colScaling |-> colScaling]
  IN  JSONstringify(config)

\* the editor state a document is exported from
Snapshot ==
  [filename |-> filename, xAxes |-> xAxes, yAxes |-> yAxes,
   rowScaling |-> rowScaling, colScaling |-> colScaling, tiles |-> tiles]

\* Inspector.tsx:73-83: writes jsonOutput = generateJSON() (App.tsx:349)
handleDownload ==
  /\ download' = generateJSON
  /\ exporter' = Snapshot
  /\ last' = [op |-> "download", file |-> NoFile]
  /\ UNCHANGED <<filename, xAxes, yAxes, rowScaling, colScaling, tiles,
                 selectedAxis, dragging, now>>

\* config.field is present (not undefined)
Has(config, field) == field \in DOMAIN config

\* faulty variant: the tile map of the document is not taken over
handleLoadJsonKeepsTiles(config) ==
  /\ filename' = IF Has(config, "filename") /\ config.filename # ""
                 THEN config.filename ELSE filename
  /\ xAxes' = IF Has(config, "xAxes") THEN config.xAxes ELSE <<>>
  /\ yAxes' = IF Has(config, "yAxes") THEN config.yAxes ELSE <<>>
  /\ tiles' = tiles
  /\ rowScaling' =
       IF Has(config, "rowScaling") THEN config.rowScaling
       ELSE generateDefaultScaling(
              (IF Has(config, "yAxes") THEN Len(config.yAxes) ELSE 0) + 1)
  /\ colScaling' =
       IF Has(config, "colScaling") THEN config.colScaling
       ELSE generateDefaultScaling(
              (IF Has(config, "xAxes") THEN Len(config.xAxes) ELSE 0) + 1)
  /\ selectedAxis' = NoAxis

\* App.tsx:165-190
handleLoadJson(config) ==
  /\ filename' = IF Has(config, "filename") /\ config.filename # ""
                 THEN config.filename ELSE filename
  /\ xAxes' = IF Has(config, "xAxes") THEN config.xAxes ELSE <<>>
  /\ yAxes' = IF Has(config, "yAxes") THEN config.yAxes ELSE <<>>
  /\ tiles' = IF Has(config, "tiles") THEN config.tiles ELSE EmptyTiles
  /\ rowScaling' =
       IF Has(config, "rowScaling") THEN config.rowScaling
       ELSE generateDefaultScaling(
              (IF Has(config, "yAxes") THEN Len(config.yAxes) ELSE 0) + 1)
  /\ colScaling' =
       IF Has(config, "colScaling") THEN config.colScaling
       ELSE generateDefaultScaling(
              (IF Has(config, "xAxes") THEN Len(config.xAxes) ELSE 0) + 1)
  /\ selectedAxis' = NoAxis

\* faulty variant: a parsed value is loaded whether or not it has the axis
\* arrays
handleUploadLoadsAnyway(file) ==
  /\ IF file.parse # "ok"
     THEN /\ last' = [op |-> "alertParse", file |-> file]
          /\ UNCHANGED <<filename, xAxes, yAxes, rowScaling, colScaling,
                         tiles, selectedAxis>>
     ELSE LET json == file.json
          IN  /\ handleLoadJson(json)
              /\ last' = [op |-> IF Has(json, "xAxes") /\ Has(json, "yAxes")
                                 THEN "load" ELSE "alertInvalid",
                          file |-> file]
  /\ UNCHANGED <<dragging, now, download, exporter>>

\* Inspector.tsx:90-103: reader.onload of handleUpload, on the text of the
\* chosen file.  JSON.parse throws on a text that is no JSON; a value without
\* an xAxes (yAxes) array has no such field here.
handleUpload(file) ==
  /\ IF file.parse # "ok"
     THEN /\ last' = [op |-> "alertParse", file |-> file]
          /\ UNCHANGED <<filename, xAxes, yAxes, rowScaling, colScaling,
                         tiles, selectedAxis>>
     ELSE LET json == file.json
          IN  IF Has(json, "xAxes") /\ Has(json, "yAxes")
              THEN /\ handleLoadJson(json)
                   /\ last' = [op |-> "load", file |-> file]
              ELSE /\ last' = [op |-> "alertInvalid", file |-> file]
                   /\ UNCHANGED <<filename, xAxes, yAxes, rowScaling,
                                  colScaling, tiles, selectedAxis>>
  /\ UNCHANGED <<dragging, now, download, exporter>>


(***************************************************************************)
(* The user's inputs                                                       *)
(***************************************************************************)
Types == {"x", "y"}

\* the axes drawn by GridLines, each with its mouse-down handler
ShownAxes ==
  {[id |-> xAxes[k].id, type |-> "x"] : k \in 1..Len(xAxes)} \cup
  {[id |-> yAxes[k].id, type |-> "y"] : k \in 1..Len(yAxes)}

\* mouse positions of a drag, <<relative, size>> in pixels: left of the
\* image, at its middle, right of it
DragPositions == {<<R(-20), R(200)>>, <<R(100), R(200)>>, <<R(500), R(200)>>}

\* texts typed into the position field
EntryTexts == {"", "-5", "50", "250"}

\* the cells of the Inspector grid whose mode the user changes (when shown)
ClickedCells == {<<0, 0>>, <<1, 2>>, <<2, 2>>}

\* the files the user can pick in the import dialog, besides a download
BrokenFile == [parse |-> "error"]

FileOf(json) == [parse |-> "ok", json |-> json]

\* a document without axis arrays
NoAxesFile == FileOf([filename |-> "a.png"])

\* a legacy document: axes only
LegacyFile ==
  FileOf([xAxes |-> <<[id |-> <<"x", 1>>, value |-> R(50)]>>,
          yAxes |-> <<>>])

\* a hand-written document: an axis value beyond 100, scaling arrays shorter
\* than the segments, a sparse tile map
HandFile ==
  FileOf([filename   |-> "",
          xAxes      |-> <<[id |-> <<"x", 1>>, value |-> R(150)]>>,
          yAxes      |-> <<[id |-> <<"y", 1>>, value |-> R(50)]>>,
          tiles      |-> TilesWith(
                           TilesWith(EmptyTiles, TileKey(0, 0), [mode |-> "Fixed"]),
                           TileKey(1, 1), [mode |-> "Hidden"]),
          rowScaling |-> <<>>,
          colScaling |-> <<"true">>])

UserFiles == {BrokenFile, NoAxesFile, LegacyFile, HandFile}

(***************************************************************************)
(* Specifications                                                          *)
(***************************************************************************)
\* one more user event is handled; no render pass is modelled alongside
Tick ==
  /\ events < MaxEvents
  /\ events' = events + 1
  /\ UNCHANGED renderVars
  /\ UNCHANGED imageVars

AddAxis ==
  /\ Tick
  /\ \E type \in Types : handleAddAxis(type)

DeleteAxis ==
  /\ Tick
  /\ selectedAxis # NoAxis
  /\ handleDeleteAxis(selectedAxis.id, selectedAxis.type)

ToggleRow ==
  /\ Tick
  /\ \E r \in 0..(numRows - 1) : toggleRowScaling(r)

ToggleCol ==
  /\ Tick
  /\ \E c \in 0..(numCols - 1) : toggleColScaling(c)

TileChange ==
  /\ Tick
  /\ \E r \in 0..(numRows - 1), c \in 0..(numCols - 1), mode \in TileMode :
       /\ <<r, c>> \in ClickedCells
       /\ handleTileChange(r, c, mode)

MouseDown ==
  /\ Tick
  /\ \E a \in ShownAxes : handleMouseDown(a.id, a.type)

MouseMove ==
  /\ Tick
  /\ \E p \in DragPositions : handleMouseMove(p[1], p[2])

MouseUp ==
  /\ Tick
  /\ handleMouseUp

AxisEntry ==
  /\ Tick
  /\ selectedAxis # NoAxis
  /\ \E text \in EntryTexts :
       updateAxisValue(selectedAxis.id, selectedAxis.type, text)

Download ==
  /\ Tick
  /\ handleDownload

Upload ==
  /\ Tick
  /\ \E file \in UserFiles \cup (IF download = NoFile THEN {} ELSE {download}) :
       handleUpload(file)

Init == EditorInit /\ RenderIdle /\ ImageLoaded

\* editing only, from the initial editor state
NextEdit ==
  \/ AddAxis
  \/ DeleteAxis
  \/ ToggleRow
  \/ ToggleCol
  \/ TileChange
  \/ MouseDown
  \/ MouseMove
  \/ MouseUp
  \/ AxisEntry

SpecEdit == Init /\ [][NextEdit]_vars

\* editing, export and import
Next ==
  \/ NextEdit
  \/ Download
  \/ Upload

Spec == Init /\ [][Next]_vars

(***************************************************************************)
(* One dimension of a render pass (PreviewCanvas effect, part_000:46-50):  *)
(* the segments of an axis list, then their destination layout.            *)
(***************************************************************************)
\* model bound: the number of axes of the rendered dimension
MaxAxes == 2

\* axis values as stored: inside [0, 100], and outside it (handleLoadJson
\* stores the values of a document as they are)
AxisValues == {-10, 0, 33, 50, 100, 150}

\* image.width (image.height) and the width (height) handed to the canvas,
\* in pixels; a negative size is what no layout produces
ImageSizes == {100, 250}
TargetSizes == {-50, 0, 50, 100, 300}

SeqsUpTo(S, n) == UNION {[1..k -> S] : k \in 0..n}

AxesOf(values) ==
  [k \in 1..Len(values) |-> [id |-> <<"x", k>>, value |-> R(values[k])]]

RenderInit ==
  /\ axes \in {AxesOf(v) : v \in SeqsUpTo(AxisValues, MaxAxes)}
  /\ totalSize \in {R(t) : t \in ImageSizes}
  /\ scalingArray \in SeqsUpTo({"true", "false"}, MaxAxes + 1)
  /\ targetSize \in {R(t) : t \in TargetSizes}
  /\ segments = <<>>
  /\ destSegments = <<>>
  /\ pc = "input"
  /\ cell = NoCell
  /\ calls = <<>>

\* part_000:46-47
Partition ==
  /\ UNCHANGED editorVars
  /\ UNCHANGED imageVars
  /\ pc = "input"
  /\ segments' = calculateSegments(axes, totalSize, scalingArray)
  /\ pc' = "partitioned"
  /\ UNCHANGED <<axes, totalSize, scalingArray, targetSize, destSegments,
                 cell, calls>>

\* part_000:49-50
Layout ==
  /\ UNCHANGED editorVars
  /\ UNCHANGED imageVars
  /\ pc = "partitioned"
  /\ destSegments' = calculateDestinationSegments(segments, targetSize)
  /\ pc' = "laid"
  /\ UNCHANGED <<axes, totalSize, scalingArray, targetSize, segments,
                 cell, calls>>

InitMath == EditorInit /\ RenderInit /\ ImageLoaded

NextMath ==
  \/ Partition
  \/ Layout

SpecMath == InitMath /\ [][NextMath]_vars

\* the render pass of the editor's own state, on the default 400 x 400 image
imageWidth == R(400)
imageHeight == R(400)
xSrcSegments == calculateSegments(xAxes, imageWidth, colScaling)
ySrcSegments == calculateSegments(yAxes, imageHeight, rowScaling)

\* the size of the preview canvas (App.tsx:35)
previewWidth == R(400)
previewHeight == R(400)
xDstSegments == calculateDestinationSegments(xSrcSegments, previewWidth)
yDstSegments == calculateDestinationSegments(ySrcSegments, previewHeight)

\* part_000:53-59: the cells the draw loop visits for the editor's state, each
\* with the (rowIdx, colIdx) its tile mode is looked up with and the source
\* segments it is drawn from
visitedCells ==
  {[rowIdx |-> r - 1, colIdx |-> c - 1,
    mode   |-> getEffectiveTileMode(tiles, r - 1, c - 1),
    ySrc   |-> ySrcSegments[r],
    xSrc   |-> xSrcSegments[c]] :
     r \in 1..Len(yDstSegments), c \in 1..Len(xDstSegments)}

(***************************************************************************)
(* The compositor: the body of the draw loop of the PreviewCanvas effect   *)
(* (part_000:53-123) for one cell, as the list of its drawImage calls.     *)
(***************************************************************************)
\* faulty variant: Math.floor
Floor(q) == q[1] \div q[2]

\* Math.ceil of a rational with a positive denominator
Ceil(q) == -((-q[1]) \div q[2])

\* ctx.drawImage(image, sx, sy, sw, sh, dx, dy, dw, dh), under the clip
\* rectangle set before it (<<>> when the canvas is not clipped)
DrawImage(sx, sy, sw, sh, dx, dy, dw, dh, clip) ==
  [sx |-> sx, sy |-> sy, sw |-> sw, sh |-> sh,
   dx |-> dx, dy |-> dy, dw |-> dw, dh |-> dh, clip |-> clip]

\* part_000:85-96: the copies of a Repeat cell, row by row
RepeatCalls(sx, sy, sw, sh, dx, dy, dw, dh) ==
  LET xRepeats == Ceil(RDiv(dw, sw))
      yRepeats == Ceil(RDiv(dh, sh))
  IN  [n \in 1..(xRepeats * yRepeats) |->
         LET y == (n - 1) \div xRepeats
             x == (n - 1) % xRepeats
         IN  DrawImage(sx, sy, sw, sh,
                       RAdd(dx, RMul(R(x), sw)), RAdd(dy, RMul(R(y), sh)),
                       sw, sh, <<dx, dy, dw, dh>>)]

\* faulty variant: every cell, Hidden or empty ones included, is drawn like a
\* Stretch cell
drawCellHiddenDrawn(mode, xSrc, ySrc, xDst, yDst) ==
  <<DrawImage(xSrc.start, ySrc.start, xSrc.length, ySrc.length,
              xDst.start, yDst.start, xDst.length, yDst.length, <<>>)>>

\* part_000:61-121: the draw calls of one cell
drawCell(mode, xSrc, ySrc, xDst, yDst) ==
  LET sx == xSrc.start
      sy == ySrc.start
      sw == xSrc.length
      sh == ySrc.length
      dx == xDst.start
      dy == yDst.start
      dw == xDst.length
      dh == yDst.length
  IN  IF mode = "Hidden" THEN <<>>
      ELSE IF RLe(sw, R(0)) \/ RLe(sh, R(0)) \/ RLe(dw, R(0)) \/ RLe(dh, R(0))
      THEN <<>>
      ELSE IF mode = "Repeat"
      THEN RepeatCalls(sx, sy, sw, sh, dx, dy, dw, dh)
      ELSE IF mode = "Fixed"
      THEN LET centeredX == RAdd(dx, RDiv(RSub(dw, sw), R(2)))
               centeredY == RAdd(dy, RDiv(RSub(dh, sh), R(2)))
           IN  <<DrawImage(sx, sy, sw, sh, centeredX, centeredY, sw, sh,
                           <<dx, dy, dw, dh>>)>>
      ELSE <<DrawImage(sx, sy, sw, sh, dx, dy, dw, dh, <<>>)>>

\* the cells drawn: every mode, source and destination segments of the
\* lengths and starts below (pixels); a length of 0 is what the guard of
\* part_000:76 is for
SrcWidths == {0, 20, 50}
SrcHeights == {0, 20}
DstWidths == {0, 30, 45, 100}
DstHeights == {0, 20, 30}
SrcStarts == {0, 10}
DstStarts == {0, 5}

Span(start, length) == [start |-> R(start), length |-> R(length)]

Cells ==
  {[mode |-> m,
    xSrc |-> Span(sx, sw), ySrc |-> Span(0, sh),
    xDst |-> Span(dx, dw), yDst |-> Span(0, dh)] :
     m \in TileMode, sx \in SrcStarts, sw \in SrcWidths, sh \in SrcHeights,
     dx \in DstStarts, dw \in DstWidths, dh \in DstHeights}

InitDraw ==
  /\ EditorInit
  /\ ImageLoaded
  /\ axes = <<>>
  /\ totalSize = R(0)
  /\ scalingArray = <<>>
  /\ targetSize = R(0)
  /\ segments = <<>>
  /\ destSegments = <<>>
  /\ pc = "cell"
  /\ cell \in Cells
  /\ calls = <<>>

\* one iteration of the inner loop of part_000:53-123
DrawCell ==
  /\ UNCHANGED editorVars
  /\ UNCHANGED imageVars
  /\ pc = "cell"
  /\ calls' = drawCell(cell.mode, cell.xSrc, cell.ySrc, cell.xDst, cell.yDst)
  /\ pc' = "drawn"
  /\ UNCHANGED <<axes, totalSize, scalingArray, targetSize, segments,
                 destSegments, cell>>

NextDraw ==
  \/ DrawCell

SpecDraw == InitDraw /\ [][NextDraw]_vars

(***************************************************************************)
(* The image: App.tsx handleFileUpload (79-91) and the image load effect   *)
(* (45-53).  A file read and an image load each complete in a later task,  *)
(* in any order; the effect has no cleanup, so a load it started stays in  *)
(* flight when imageSrc changes again.                                     *)
(***************************************************************************)
\* model bound: the number of files picked in one run
MaxUploads == 3

\* the files the user picks, each with the data URL its read results in
ImageFiles ==
  {[name |-> "a.png", data |-> "data:a"],
   [name |-> "b.png", data |-> "data:b"],
   [name |-> "c.png", data |-> "data:c"]}

\* App.tsx:79-91, up to reader.readAsDataURL(file)
handleFileUpload(file) ==
  /\ filename' = file.name
  /\ reads' = reads \cup {file}
  /\ picked' = file
  /\ uploads' = uploads + 1
  /\ UNCHANGED <<imageSrc, image, loads>>

\* App.tsx:45-53, up to the assignment of img.onload: run on mount and after
\* every render in which imageSrc has changed
imageEffect(src) == loads' = loads \cup {src}

\* App.tsx:84-88: reader.onload of a pending read; setImageSrc re-renders and
\* runs the effect when the value is a new one
readerOnload(file) ==
  /\ reads' = reads \ {file}
  /\ imageSrc' = file.data
  /\ IF file.data # imageSrc THEN imageEffect(file.data) ELSE loads' = loads
  /\ UNCHANGED <<filename, image, picked, uploads>>

\* App.tsx:49-52: img.onload of a pending load
imgOnload(src) ==
  /\ loads' = loads \ {src}
  /\ image' = [src |-> src]
  /\ UNCHANGED <<filename, imageSrc, reads, picked, uploads>>

\* the editor's other state cells stay as they are
EditorKept ==
  UNCHANGED <<xAxes, yAxes, rowScaling, colScaling, tiles, selectedAxis,
              dragging, now, download, exporter, last, events>>

\* the application is mounted: the effect has started loading the default
\* image
InitImage ==
  /\ EditorInit
  /\ RenderIdle
  /\ imageSrc = DEFAULT_IMAGE_SRC
  /\ image = NoImage
  /\ reads = {}
  /\ loads = {DEFAULT_IMAGE_SRC}
  /\ picked = NoPick
  /\ uploads = 0

PickFile ==
  /\ uploads < MaxUploads
  /\ \E file \in ImageFiles : handleFileUpload(file)
  /\ EditorKept
  /\ UNCHANGED renderVars

ReadDone ==
  /\ \E file \in reads : readerOnload(file)
  /\ EditorKept
  /\ UNCHANGED renderVars

LoadDone ==
  /\ \E src \in loads : imgOnload(src)
  /\ EditorKept
  /\ UNCHANGED renderVars

NextImage ==
  \/ PickFile
  \/ ReadDone
  \/ LoadDone

SpecImage == InitImage /\ [][NextImage]_vars

(***************************************************************************)
(* Properties                                                              *)
(***************************************************************************)
Lengths(segs) == [k \in 1..Len(segs) |-> segs[k].length]

\* ascending, starting at 0, contiguous, and summing to total
IsPartition(segs, total) ==
  /\ segs # <<>> => segs[1].start = R(0)
  /\ \A k \in 1..(Len(segs) - 1) :
       /\ RLt(segs[k].start, segs[k + 1].start)
       /\ RAdd(segs[k].start, segs[k].length) = segs[k + 1].start
  /\ RSum(Lengths(segs)) = total

AllInRange(axs) ==
  \A k \in 1..Len(axs) : RLe(R(0), axs[k].value) /\ RLe(axs[k].value, R(100))

\* C1: for every axis list as stored and every total size T > 0, the
\* segments calculateSegments emits for the editor's axes start at 0, ascend,
\* are contiguous, and their lengths sum to T.
C1_SegmentsPartitionImage ==
  /\ IsPartition(xSrcSegments, imageWidth)
  /\ IsPartition(ySrcSegments, imageHeight)

\* C1, for axis values in [0, 100] only: the partition property of the
\* segments computed by a render pass
PartitionInRange ==
  (pc # "input" /\ AllInRange(axes)) => IsPartition(segments, totalSize)

PartitionInRangeReached ==
  /\ pc # "input"
  /\ AllInRange(axes)
  /\ Len(axes) = 2
  /\ axes[1].value = axes[2].value
  /\ Len(segments) = 2

HasFixed(segs) == \E k \in 1..Len(segs) : segs[k].isFixed
HasScalable(segs) == \E k \in 1..Len(segs) : ~segs[k].isFixed

FixedKeepLength ==
  \A k \in 1..Len(segments) :
    segments[k].isFixed => destSegments[k].length = segments[k].length

\* C2 as stated: whenever S >= totalFixed, the destination lengths sum to S
\* and every fixed segment keeps its source length, lists without a scalable
\* segment included.
C2_SumIsTargetAlways ==
  (pc = "laid" /\ RLe(TotalFixed(segments), targetSize)) =>
     /\ RSum(Lengths(destSegments)) = targetSize
     /\ FixedKeepLength

\* C2 amended: whenever S >= totalFixed, every fixed segment keeps its source
\* length; the destination lengths sum to S when the list has a scalable
\* segment or S = totalFixed, and to totalFixed when it has none.
C2_SumIsTargetWithScalable ==
  (pc = "laid" /\ RLe(TotalFixed(segments), targetSize)) =>
     /\ FixedKeepLength
     /\ RSum(Lengths(destSegments)) =
          (IF HasScalable(segments) THEN targetSize ELSE TotalFixed(segments))
     /\ (targetSize = TotalFixed(segments)) =>
          /\ RSum(Lengths(destSegments)) = targetSize
          /\ \A k \in 1..Len(segments) :
               ~segments[k].isFixed => destSegments[k].length = R(0)

C2_Witness ==
  /\ pc = "laid"
  /\ RLt(TotalFixed(segments), targetSize)
  /\ HasFixed(segments)
  /\ HasScalable(segments)
  /\ Len(segments) = 3

\* C3: when 0 <= S < totalFixed, every fixed segment gets
\* sourceLength * (S / totalFixed), every scalable segment gets 0, and the
\* destination lengths sum to S.
C3_UniformShrink ==
  (pc = "laid" /\ RLe(R(0), targetSize)
     /\ RLt(targetSize, TotalFixed(segments))) =>
     /\ \A k \in 1..Len(segments) :
          destSegments[k].length =
            (IF segments[k].isFixed
             THEN RMul(segments[k].length,
                       RDiv(targetSize, TotalFixed(segments)))
             ELSE R(0))
     /\ RSum(Lengths(destSegments)) = targetSize

C3_Witness ==
  /\ pc = "laid"
  /\ RLt(R(0), targetSize)
  /\ RLt(targetSize, TotalFixed(segments))
  /\ HasScalable(segments)
  /\ \E k \in 1..Len(segments) :
       segments[k].isFixed /\ RLt(destSegments[k].length, segments[k].length)

\* C4: when no segment is fixed and S > 0, destination lengths are
\* proportional to source lengths: each is sourceLength * (S / sum of source
\* lengths), so destLength[i] * srcLength[j] = destLength[j] * srcLength[i].
C4_Proportional ==
  (pc = "laid" /\ ~HasFixed(segments) /\ RLt(R(0), targetSize)) =>
     \A i \in 1..Len(segments) :
       /\ destSegments[i].length =
            RMul(segments[i].length,
                 RDiv(targetSize, RSum(Lengths(segments))))
       /\ \A j \in 1..Len(segments) :
            RMul(destSegments[i].length, segments[j].length) =
            RMul(destSegments[j].length, segments[i].length)

C4_Witness ==
  /\ pc = "laid"
  /\ ~HasFixed(segments)
  /\ RLt(R(0), targetSize)
  /\ Len(segments) = 3
  /\ segments[1].length # segments[2].length
  /\ destSegments[1].length # segments[1].length

LoadedTheDownload == last.op = "load" /\ last.file = download

\* C6: after an exported document is loaded, every cell of the exporting
\* state's grid has the effective mode it had in the exporting state.
C6_TileRoundTrip ==
  LoadedTheDownload =>
    \A r \in 0..Len(exporter.yAxes), c \in 0..Len(exporter.xAxes) :
      getEffectiveTileMode(tiles, r, c) =
        getEffectiveTileMode(exporter.tiles, r, c)

C6_Witness ==
  /\ LoadedTheDownload
  /\ DOMAIN exporter.tiles = {TileKey(1, 2)}
  /\ exporter.tiles[TileKey(1, 2)].mode = "Repeat"
  /\ getEffectiveTileMode(tiles, 1, 2) = "Repeat"
  /\ getEffectiveTileMode(tiles, 0, 0) = "Stretch"

\* the cells of the current grid
GridKeys ==
  {TileKey(r, c) : r \in 0..Len(yAxes), c \in 0..Len(xAxes)}

\* C7: the tiles object of the exported document has exactly the keys of the
\* current grid, each with the effective mode of its cell.
C7_DenseExport ==
  LET exported == generateJSON.json.tiles
  IN  /\ DOMAIN exported = GridKeys
      /\ \A key \in GridKeys :
           exported[key].mode =
             (IF key \in DOMAIN tiles THEN tiles[key].mode ELSE "Stretch")
      /\ last.op = "download" => download = generateJSON

C7_Witness ==
  /\ last.op = "download"
  /\ \E key \in DOMAIN tiles : key \notin GridKeys
  /\ \E key \in GridKeys : key \notin DOMAIN tiles
  /\ \E key \in GridKeys : download.json.tiles[key].mode # "Stretch"

\* C8: loading an exported document gives back the axes, the scaling arrays
\* and the filename of the exporting state, and clears the selection.
C8_DocumentRoundTrip ==
  LoadedTheDownload =>
    /\ xAxes = exporter.xAxes
    /\ yAxes = exporter.yAxes
    /\ rowScaling = exporter.rowScaling
    /\ colScaling = exporter.colScaling
    /\ filename = exporter.filename
    /\ selectedAxis = NoAxis

LengthsInSync ==
  /\ Len(colScaling) = Len(xAxes) + 1
  /\ Len(rowScaling) = Len(yAxes) + 1

\* both lists of one dimension change length by d, the other dimension's
\* lists keep theirs
ResizedBy(d) ==
  \/ /\ Len(xAxes') = Len(xAxes) + d
     /\ Len(colScaling') = Len(colScaling) + d
     /\ Len(yAxes') = Len(yAxes)
     /\ Len(rowScaling') = Len(rowScaling)
  \/ /\ Len(yAxes') = Len(yAxes) + d
     /\ Len(rowScaling') = Len(rowScaling) + d
     /\ Len(xAxes') = Len(xAxes)
     /\ Len(colScaling') = Len(colScaling)

\* C9: under editing from the initial state each scaling array has one flag
\* more than its dimension has axes; an add grows the axis list and the flag
\* list of one dimension by one, a delete shrinks both by one.
C9_ScalingFollowsAxes ==
  /\ LengthsInSync
  /\ [][/\ LengthsInSync'
        /\ last'.op = "add" => ResizedBy(1)
        /\ last'.op = "delete" => ResizedBy(-1)]_vars

C9_Witness ==
  /\ last.op = "delete"
  /\ now > 3
  /\ Len(xAxes) = 3
  /\ Len(colScaling) = 4
  /\ Len(yAxes) = 1
  /\ Len(rowScaling) = 2

\* C10: every exported document has one row flag more than y axes and one
\* column flag more than x axes.
C10_ExportedLengths ==
  LET doc == generateJSON.json
  IN  /\ Len(doc.rowScaling) = Len(doc.yAxes) + 1
      /\ Len(doc.colScaling) = Len(doc.xAxes) + 1

\* the alternating pattern of n flags: flag i (from 0) is true exactly when
\* i is odd
IsDefaultPattern(arr, n) ==
  /\ Len(arr) = n
  /\ \A k \in 1..Len(arr) :
       arr[k] = (IF (k - 1) % 2 = 1 THEN "true" ELSE "false")

\* C11: a loaded document without rowScaling (colScaling) leaves the editor
\* with the alternating default of yAxes.length + 1 (xAxes.length + 1) flags,
\* false first; an array that is present is taken as given;
\* generateDefaultScaling(3) is [false, true, false] and
\* generateDefaultScaling(1) is [false].
C11_LegacyLoad ==
  /\ generateDefaultScaling(3) = <<"false", "true", "false">>
  /\ generateDefaultScaling(1) = <<"false">>
  /\ last.op = "load" =>
       LET config == last.file.json
       IN  /\ IF Has(config, "rowScaling")
              THEN rowScaling = config.rowScaling
              ELSE IsDefaultPattern(rowScaling, Len(yAxes) + 1)
           /\ IF Has(config, "colScaling")
              THEN colScaling = config.colScaling
              ELSE IsDefaultPattern(colScaling, Len(xAxes) + 1)

C11_Witness ==
  /\ last.op = "load"
  /\ ~Has(last.file.json, "rowScaling")
  /\ ~Has(last.file.json, "colScaling")
  /\ Len(xAxes) = 1
  /\ colScaling = <<"false", "true">>
  /\ yAxes = <<>>
  /\ rowScaling = <<"false">>

\* min(100, max(0, v))
Clamped(v) == RMin(R(100), RMax(R(0), v))

\* after is before with the value of the axis id set to v: same length, same
\* ids in the same order, every other value kept
EditedTo(before, after, id, v) ==
  /\ Len(after) = Len(before)
  /\ \A k \in 1..Len(before) :
       /\ after[k].id = before[k].id
       /\ after[k].value = (IF before[k].id = id THEN v ELSE before[k].value)

\* the step sets the axis `which` to v and keeps the other axis list
EditedAxis(which, v) ==
  IF which.type = "x"
  THEN EditedTo(xAxes, xAxes', which.id, v) /\ yAxes' = yAxes
  ELSE EditedTo(yAxes, yAxes', which.id, v) /\ xAxes' = xAxes

\* C12: a numeric entry that does not parse to a number leaves both axis
\* lists unchanged; every other entry v and every drag position v sets the
\* edited axis to min(100, max(0, v)) and keeps every other axis, all ids and
\* the number of axes.
C12_AxisEdits ==
  [][/\ last'.op = "entry" =>
          LET v == parseFloat(last'.input)
          IN  IF isNaN(v)
              THEN xAxes' = xAxes /\ yAxes' = yAxes
              ELSE EditedAxis(selectedAxis, Clamped(v))
     /\ last'.op = "move" =>
          LET v == RMul(RDiv(last'.input[1], last'.input[2]), R(100))
          IN  EditedAxis(dragging, Clamped(v))]_vars

C12_Witness ==
  /\ last.op = "entry"
  /\ last.input = "250"
  /\ selectedAxis = [id |-> <<"x", 1>>, type |-> "x"]
  /\ Len(xAxes) = 2
  /\ xAxes[1] = [id |-> <<"x", 1>>, value |-> R(100)]
  /\ xAxes[2] = [id |-> <<"x", 2>>, value |-> R(66)]
  /\ yAxes[1].value = R(33)

\* C13: every axis value the editor holds lies in [0, 100], also after a
\* document that passed the import check has been loaded.
C13_AxisValuesInRange ==
  /\ AllInRange(xAxes)
  /\ AllInRange(yAxes)

\* the file is no JSON text, or its value lacks an xAxes or a yAxes array
FailsImportCheck(file) ==
  \/ file.parse # "ok"
  \/ ~Has(file.json, "xAxes")
  \/ ~Has(file.json, "yAxes")

\* C14: an import of a text that is no JSON, or of a value without an xAxes
\* or yAxes array, ends in an alert and leaves filename, xAxes, yAxes, tiles,
\* rowScaling, colScaling and the selection as they were.
C14_FailedImportKeepsState ==
  [][(last'.file # NoFile /\ FailsImportCheck(last'.file)) =>
       /\ last'.op \in {"alertParse", "alertInvalid"}
       /\ last'.op = "alertParse" <=> last'.file.parse # "ok"
       /\ UNCHANGED <<filename, xAxes, yAxes, tiles, rowScaling, colScaling,
                      selectedAxis>>]_vars

C14_Witness ==
  /\ last.op = "alertInvalid"
  /\ last.file = NoAxesFile
  /\ Len(xAxes) = 3
  /\ Len(colScaling) = 4
  /\ selectedAxis.type = "x"
  /\ filename = "example.jpg"

\* the values of the axes in ascending order, as a sequence of rationals
SortedValues(axs) ==
  LET sorted == SortByValue(axs)
  IN  [k \in 1..Len(sorted) |-> sorted[k].value]

\* boundary i (from 0) of the walk: the sorted axis values as pixels, then
\* the total size
BoundaryAt(i) ==
  IF i < Len(axes)
  THEN RMul(RDiv(SortedValues(axes)[i + 1], R(100)), totalSize)
  ELSE totalSize

\* the length of the segment for boundary i: the boundary minus the previous
\* one, 0 for the first
LengthAt(i) == RSub(BoundaryAt(i), IF i = 0 THEN R(0) ELSE BoundaryAt(i - 1))

\* scaling[i] is true
FlagAt(i) == i + 1 \in DOMAIN scalingArray /\ scalingArray[i + 1] = "true"

\* C15: calculateSegments emits the segment for boundary i exactly when its
\* length is > 0, with index i, that length, and isFixed
\* the negation of scaling[i] (fixed when scaling has no entry at i), in
\* boundary order; so every emitted length is > 0 and there are between 0 and
\* axisCount + 1 segments.
C15_FlagAndDropRule ==
  pc # "input" =>
    /\ Len(segments) <= Len(axes) + 1
    /\ \A k \in 1..Len(segments) :
         LET seg == segments[k]
         IN  /\ RLt(R(0), seg.length)
             /\ seg.index \in 0..Len(axes)
             /\ seg.length = LengthAt(seg.index)
             /\ seg.isFixed = ~FlagAt(seg.index)
             /\ k > 1 => segments[k - 1].index < seg.index
    /\ \A i \in 0..Len(axes) :
         RLt(R(0), LengthAt(i)) =>
           \E k \in 1..Len(segments) : segments[k].index = i

C15_Witness ==
  /\ pc # "input"
  /\ Len(axes) = 2
  /\ RLt(axes[2].value, axes[1].value)
  /\ Len(scalingArray) = 1
  /\ Len(segments) = 2
  /\ segments[1].index = 1
  /\ segments[1].isFixed
  /\ segments[2].index = 2

\* C16: for S >= 0 the layout has one destination segment per source
\* segment, in the same order and with srcIndex the source's index; the first
\* starts at 0, each starts where the previous one ends, and no length is
\* negative.
C16_DestinationStructure ==
  (pc = "laid" /\ RLe(R(0), targetSize)) =>
    /\ Len(destSegments) = Len(segments)
    /\ \A k \in 1..Len(destSegments) :
         /\ destSegments[k].srcIndex = segments[k].index
         /\ RLe(R(0), destSegments[k].length)
         /\ destSegments[k].start =
              (IF k = 1 THEN R(0)
               ELSE RAdd(destSegments[k - 1].start, destSegments[k - 1].length))

C16_Witness ==
  /\ pc = "laid"
  /\ RLt(R(0), targetSize)
  /\ Len(destSegments) = 2
  /\ destSegments[1].srcIndex = 1
  /\ destSegments[2].srcIndex = 2
  /\ RLt(R(0), destSegments[2].start)
  /\ destSegments[2].length # segments[2].length

\* a source or destination side of the cell is <= 0
Degenerate ==
  \/ RLe(cell.xSrc.length, R(0))
  \/ RLe(cell.ySrc.length, R(0))
  \/ RLe(cell.xDst.length, R(0))
  \/ RLe(cell.yDst.length, R(0))

SourceRect(call) == <<call.sx, call.sy, call.sw, call.sh>>
DestRect(call) == <<call.dx, call.dy, call.dw, call.dh>>
CellSourceRect ==
  <<cell.xSrc.start, cell.ySrc.start, cell.xSrc.length, cell.ySrc.length>>
CellDestRect ==
  <<cell.xDst.start, cell.yDst.start, cell.xDst.length, cell.yDst.length>>

\* C17: a Hidden cell and a cell with a source or destination side <= 0
\* produce no draw call; every other Stretch cell produces exactly one, from
\* the cell's source rectangle to its destination rectangle; every other
\* Fixed cell produces exactly one, from the source rectangle at native size.
C17_DrawCallsPerCell ==
  pc = "drawn" =>
    /\ cell.mode = "Hidden" => calls = <<>>
    /\ Degenerate => calls = <<>>
    /\ (cell.mode = "Stretch" /\ ~Degenerate) =>
         /\ Len(calls) = 1
         /\ SourceRect(calls[1]) = CellSourceRect
         /\ DestRect(calls[1]) = CellDestRect
    /\ (cell.mode = "Fixed" /\ ~Degenerate) =>
         /\ Len(calls) = 1
         /\ SourceRect(calls[1]) = CellSourceRect
         /\ calls[1].dw = cell.xSrc.length
         /\ calls[1].dh = cell.ySrc.length

C17_Witness ==
  /\ pc = "drawn"
  /\ cell.mode = "Stretch"
  /\ ~Degenerate
  /\ cell.xDst.length # cell.xSrc.length
  /\ cell.xSrc.start # R(0)
  /\ Len(calls) = 1
  /\ calls[1].dw = cell.xDst.length

\* calls is an nx x ny grid of native-size copies of the cell's source
\* rectangle, row by row, copy (x, y) at the destination's corner shifted by
\* (x * sw, y * sh)
IsRepeatGrid(nx, ny) ==
  /\ Len(calls) = nx * ny
  /\ \A y \in 0..(ny - 1), x \in 0..(nx - 1) :
       LET call == calls[y * nx + x + 1]
       IN  /\ SourceRect(call) = CellSourceRect
           /\ DestRect(call) =
                <<RAdd(cell.xDst.start, RMul(R(x), cell.xSrc.length)),
                  RAdd(cell.yDst.start, RMul(R(y), cell.ySrc.length)),
                  cell.xSrc.length, cell.ySrc.length>>

\* n is ceil(d / s): n copies of length s cover d, and the last one still
\* overlaps it
IsCeilOf(n, d, s) ==
  /\ RLe(d, RMul(R(n), s))
  /\ RLt(RMul(R(n - 1), s), d)

\* C18: a Repeat cell with no side <= 0 is drawn as ceil(dw/sw) * ceil(dh/sh)
\* native-size copies in row-major order, copy (x, y) at
\* (dx + x*sw, dy + y*sh); the copies cover the destination rectangle and
\* each overlaps it; a 20 x 20 source in a 45 x 30 destination gives 3 x 2.
C18_RepeatTiling ==
  (pc = "drawn" /\ cell.mode = "Repeat" /\ ~Degenerate) =>
    /\ \E nx \in 1..Len(calls), ny \in 1..Len(calls) :
         /\ IsCeilOf(nx, cell.xDst.length, cell.xSrc.length)
         /\ IsCeilOf(ny, cell.yDst.length, cell.ySrc.length)
         /\ IsRepeatGrid(nx, ny)
    /\ (/\ cell.xSrc.length = R(20) /\ cell.ySrc.length = R(20)
        /\ cell.xDst.length = R(45) /\ cell.yDst.length = R(30)) =>
         IsRepeatGrid(3, 2)

C18_Witness ==
  /\ pc = "drawn"
  /\ cell.mode = "Repeat"
  /\ cell.xSrc.length = R(20)
  /\ cell.ySrc.length = R(20)
  /\ cell.xDst = Span(5, 45)
  /\ cell.yDst.length = R(30)
  /\ Len(calls) = 6
  /\ calls[6].dx = R(45)
  /\ calls[6].dy = R(20)

\* C19: the (rowIdx, colIdx) a drawn cell's tile mode is looked up with are
\* the index fields of its row and column segments, the indices at which
\* their scaling flags were read.
C19_LookupIsScalingIndex ==
  \A c \in visitedCells :
    /\ c.rowIdx = c.ySrc.index
    /\ c.colIdx = c.xSrc.index

\* C20: every step other than a set-tile or a document load (add, delete,
\* move, toggle among them) leaves the tile map unchanged; a set-tile of cell
\* (r, c) to mode m stores m under the key of (r, c), keeps every other
\* entry, and keeps both axis lists and both scaling arrays.
C20_TilesSurviveEdits ==
  [][/\ last'.op \notin {"tile", "load"} => tiles' = tiles
     /\ last'.op = "tile" =>
          LET key == TileKey(last'.input[1], last'.input[2])
              m   == last'.input[3]
          IN  /\ DOMAIN tiles' = DOMAIN tiles \cup {key}
              /\ tiles'[key] = [mode |-> m]
              /\ \A k \in DOMAIN tiles : k # key => tiles'[k] = tiles[k]
              /\ getEffectiveTileMode(tiles', last'.input[1],
                                      last'.input[2]) = m
              /\ UNCHANGED <<xAxes, yAxes, rowScaling, colScaling>>]_vars

C20_Witness ==
  /\ last.op = "delete"
  /\ Len(xAxes) = 1
  /\ Len(colScaling) = 2
  /\ TileKey(2, 2) \in DOMAIN tiles
  /\ getEffectiveTileMode(tiles, 2, 2) = "Hidden"

\* every read and every load has completed
Settled == reads = {} /\ loads = {}

\* C21: once every pending read and load has completed, the image is the
\* one of the file picked last and the filename is that file's name.
C21_LatestImageWins ==
  (Settled /\ picked # NoPick) =>
    /\ image = [src |-> picked.data]
    /\ filename = picked.name

\* C21, the filename alone: it is the name of the file picked last, whatever
\* is still in flight
FilenameIsLatest == picked # NoPick => filename = picked.name

FilenameIsLatestReached ==
  /\ Settled
  /\ uploads = 2
  /\ filename = picked.name
  /\ image # [src |-> picked.data]

====
